---- MODULE Spec2Model ----
(***************************************************************************)
(* TSA item checker backend (src/main.py): the POST /check-item handler,   *)
(* the OpenRouter classification client behind it and GET /health.         *)
(*                                                                         *)
(* Texts (Python str) are sequences of characters.  A character is a       *)
(* record [c, body]: c names the character class and body is empty, except *)
(* for the class "m", which stands for the text of a comma-separated list  *)
(* of JSON members ("key": value, ...) and carries that list in body.  The *)
(* only characters with a brace in them are "{" and "}".                   *)
(***************************************************************************)
EXTENDS Integers, Sequences, FiniteSets, TLC

\* Longest reply text of the upstream model, in characters.
MaxReplyLen == 4

(***************************************************************************)
(* Texts                                                                   *)
(***************************************************************************)
Ch(c) == [c |-> c, body |-> <<>>]

\* A string literal of the source, kept as one unit.
Lit(s) == <<Ch(s)>>

LBrace == Ch("{")
RBrace == Ch("}")
Prose == Ch("w")
Space == Ch(" ")
Letter == Ch("a")

\* Python values: bool, None and str.
PyBool(b) == [t |-> "bool", b |-> b, s |-> <<>>]
PyNone == [t |-> "none", b |-> FALSE, s |-> <<>>]
PyStr(s) == [t |-> "str", b |-> FALSE, s |-> s]

\* One JSON member "key": value.
Member(k, v) == [k |-> k, v |-> v]

\* The text of the members ms, separated by commas.
MembersText(ms) == [c |-> "m", body |-> ms]

(***************************************************************************)
(* String operations of the source                                         *)
(***************************************************************************)
IsSpace(ch) == ch.c = " "

RECURSIVE lstrip(_)
lstrip(s) == IF s # <<>> /\ IsSpace(Head(s)) THEN lstrip(Tail(s)) ELSE s

RECURSIVE rstrip(_)
rstrip(s) ==
  IF s # <<>> /\ IsSpace(s[Len(s)]) THEN rstrip(SubSeq(s, 1, Len(s) - 1)) ELSE s

\* str.strip(): leading and trailing whitespace removed.
strip(s) == rstrip(lstrip(s))

\* str.find(ch): lowest 0-based index of ch, or -1.
find(s, ch) ==
  IF \E i \in 1..Len(s) : s[i] = ch
  THEN (CHOOSE i \in 1..Len(s) : s[i] = ch /\ \A j \in 1..(i - 1) : s[j] # ch) - 1
  ELSE -1

\* str.rfind(ch): highest 0-based index of ch, or -1.
rfind(s, ch) ==
  IF \E i \in 1..Len(s) : s[i] = ch
  THEN (CHOOSE i \in 1..Len(s) : s[i] = ch /\ \A j \in (i + 1)..Len(s) : s[j] # ch) - 1
  ELSE -1

\* s[a:b] for 0 <= a <= b <= len(s).
slice(s, a, b) == SubSeq(s, a + 1, b)

\* str(n) of a status code.
StatusText(n) == Lit(ToString(n))

(***************************************************************************)
(* json.loads on the candidate text.  The decoder reads one value from the *)
(* start of the text and rejects anything left over ("Extra data").  A     *)
(* text that starts with "{" is an object or an error.                     *)
(***************************************************************************)
EmptyDict == [k \in {} |-> PyNone]

RECURSIVE DictOf(_)
\* The dict of a member list; a repeated key keeps its last value.
DictOf(ms) ==
  IF ms = <<>> THEN EmptyDict
  ELSE LET last == ms[Len(ms)]
       IN (last.k :> last.v) @@ DictOf(SubSeq(ms, 1, Len(ms) - 1))

\* Scan one object starting at 1-based position i: [ok, obj, end].
JSONObject(s, i) ==
  IF i > Len(s) \/ s[i] # LBrace
    THEN [ok |-> FALSE, obj |-> EmptyDict, end |-> i]
  ELSE IF i + 1 <= Len(s) /\ s[i + 1] = RBrace
    THEN [ok |-> TRUE, obj |-> EmptyDict, end |-> i + 2]
  ELSE IF i + 2 <= Len(s) /\ s[i + 1].c = "m" /\ s[i + 2] = RBrace
    THEN [ok |-> TRUE, obj |-> DictOf(s[i + 1].body), end |-> i + 3]
  ELSE [ok |-> FALSE, obj |-> EmptyDict, end |-> i]

\* json.loads(s): ok = FALSE stands for json.JSONDecodeError.
json_loads(s) ==
  LET r == JSONObject(s, 1)
  IN IF r.ok /\ r.end = Len(s) + 1
     THEN [ok |-> TRUE, obj |-> r.obj]
     ELSE [ok |-> FALSE, obj |-> EmptyDict]

\* dict.get(k, default)
dict_get(d, k, default) == IF k \in DOMAIN d THEN d[k] ELSE default

(***************************************************************************)
(* Exceptions and the result model                                         *)
(***************************************************************************)
\* fastapi.HTTPException(status_code, detail)
HTTPException(status, detail) ==
  [exc |-> "HTTPException", status |-> status, detail |-> detail]

\* Any other exception class, with its message.
Exception(class, msg) == [exc |-> class, status |-> 0, detail |-> msg]

NoException == [exc |-> "none", status |-> 0, detail |-> <<>>]

\* str(e): starlette's HTTPException prints "<status_code>: <detail>", the
\* other exceptions print their message.
str(e) ==
  IF e.exc = "HTTPException"
  THEN StatusText(e.status) \o Lit(": ") \o e.detail
  ELSE e.detail

NoResult ==
  [item |-> <<>>, carry_on_allowed |-> FALSE, checked_baggage_allowed |-> FALSE,
   description |-> <<>>, restrictions |-> PyNone, additional_notes |-> PyNone]

\* What a function leaves behind: a returned value or a raised exception.
Return(r) == [ret |-> TRUE, result |-> r, exc |-> NoException]
Raise(e) == [ret |-> FALSE, result |-> NoResult, exc |-> e]

\* pydantic's validation of a bool field: a bool is taken as it is, the
\* string "yes" is read as True, None and other strings are rejected.
BoolField(v) ==
  IF v.t = "bool" THEN [ok |-> TRUE, b |-> v.b]
  ELSE IF v = PyStr(Lit("yes")) THEN [ok |-> TRUE, b |-> TRUE]
  ELSE [ok |-> FALSE, b |-> FALSE]

\* description: str
StrField(v) == v.t = "str"

\* restrictions, additional_notes: Optional[str]
OptStrField(v) == v.t \in {"str", "none"}

\* TSACheckResult(...): the model instance, or pydantic's ValidationError.
TSACheckResult(item, carry, checked, description, restrictions, notes) ==
  IF /\ BoolField(carry).ok
     /\ BoolField(checked).ok
     /\ StrField(description)
     /\ OptStrField(restrictions)
     /\ OptStrField(notes)
  THEN Return([item |-> item,
               carry_on_allowed |-> BoolField(carry).b,
               checked_baggage_allowed |-> BoolField(checked).b,
               description |-> description.s,
               restrictions |-> restrictions,
               additional_notes |-> notes])
  ELSE Raise(Exception("ValidationError", Lit("validation error for TSACheckResult")))

(***************************************************************************)
(* OpenRouterService.check_tsa_item, from the upstream's answer on         *)
(***************************************************************************)
NoJsonFallback(llm_response) ==
  [carry_on_allowed |-> PyBool(FALSE),
   checked_baggage_allowed |-> PyBool(FALSE),
   description |-> PyStr(llm_response),
   restrictions |-> PyNone,
   additional_notes |-> PyStr(Lit("Unable to parse structured response from AI"))]

FormatErrorFallback(llm_response) ==
  [carry_on_allowed |-> PyBool(FALSE),
   checked_baggage_allowed |-> PyBool(FALSE),
   description |-> PyStr(llm_response),
   restrictions |-> PyNone,
   additional_notes |->
     PyStr(Lit("Response format error - please verify information with official TSA guidelines"))]

\* The candidate text between the first "{" and the last "}", or none.
HasCandidate(llm_response) ==
  LET json_start == find(llm_response, LBrace)
      json_end == rfind(llm_response, RBrace) + 1
  IN json_start >= 0 /\ json_end > json_start

Candidate(llm_response) ==
  slice(llm_response, find(llm_response, LBrace), rfind(llm_response, RBrace) + 1)

\* parsed_result, had the JSONDecodeError clause left the dict empty.
ParseReplyEmptyOnError(llm_response) ==
  IF HasCandidate(llm_response)
  THEN json_loads(Candidate(llm_response)).obj
  ELSE NoJsonFallback(llm_response)

\* parsed_result
ParseReply(llm_response) ==
  IF HasCandidate(llm_response)
  THEN LET r == json_loads(Candidate(llm_response))
       IN IF r.ok THEN r.obj ELSE FormatErrorFallback(llm_response)
  ELSE NoJsonFallback(llm_response)

\* The result, had item been read from the reply's object like the rest.
BuildResultItemFromReply(item, parsed_result) ==
  TSACheckResult(
    dict_get(parsed_result, "item", PyStr(item)).s,
    dict_get(parsed_result, "carry_on_allowed", PyBool(FALSE)),
    dict_get(parsed_result, "checked_baggage_allowed", PyBool(FALSE)),
    dict_get(parsed_result, "description", PyStr(Lit("No description available"))),
    dict_get(parsed_result, "restrictions", PyNone),
    dict_get(parsed_result, "additional_notes", PyNone))

\* The result, had both flags been read from "carry_on_allowed".
BuildResultOneFlag(item, parsed_result) ==
  TSACheckResult(
    item,
    dict_get(parsed_result, "carry_on_allowed", PyBool(FALSE)),
    dict_get(parsed_result, "carry_on_allowed", PyBool(FALSE)),
    dict_get(parsed_result, "description", PyStr(Lit("No description available"))),
    dict_get(parsed_result, "restrictions", PyNone),
    dict_get(parsed_result, "additional_notes", PyNone))

\* return TSACheckResult(item=item, ...)
BuildResult(item, parsed_result) ==
  TSACheckResult(
    item,
    dict_get(parsed_result, "carry_on_allowed", PyBool(FALSE)),
    dict_get(parsed_result, "checked_baggage_allowed", PyBool(FALSE)),
    dict_get(parsed_result, "description", PyStr(Lit("No description available"))),
    dict_get(parsed_result, "restrictions", PyNone),
    dict_get(parsed_result, "additional_notes", PyNone))

\* The error raised for a response whose status is not 200.
UpstreamError(up) ==
  HTTPException(500, Lit("OpenRouter API error: ") \o StatusText(up.status)
                       \o Lit(" - ") \o up.text)

\* The body of the try statement, once client.post has come back with up.
TryBody(item, up) ==
  IF up.kind = "timeout" THEN Raise(Exception("TimeoutException", up.text))
  ELSE IF up.kind = "network" THEN Raise(Exception("RequestError", up.text))
  ELSE IF up.status # 200 THEN Raise(UpstreamError(up))
  ELSE IF ~up.envelope THEN Raise(Exception("KeyError", Lit("'choices'")))
  ELSE BuildResult(item, ParseReply(up.content))

\* The except clauses without the one for httpx.TimeoutException, which is
\* a RequestError.
ClientHandlersNoTimeoutClause(e) ==
  IF e.exc \in {"TimeoutException", "RequestError"}
    THEN HTTPException(500, Lit("Network error: ") \o str(e))
  ELSE HTTPException(500, Lit("Unexpected error: ") \o str(e))

\* The except clauses of check_tsa_item, applied to what the body raised.
ClientHandlers(e) ==
  IF e.exc = "TimeoutException"
    THEN HTTPException(504, Lit("Request to LLM service timed out"))
  ELSE IF e.exc = "RequestError"
    THEN HTTPException(500, Lit("Network error: ") \o str(e))
  ELSE HTTPException(500, Lit("Unexpected error: ") \o str(e))

check_tsa_item(item, up) ==
  LET body == TryBody(item, up)
  IN IF body.ret THEN body ELSE Raise(ClientHandlers(body.exc))

(***************************************************************************)
(* The HTTP layer                                                          *)
(***************************************************************************)
NoResponse == [status |-> 0, kind |-> "none", detail |-> <<>>, result |-> NoResult]

\* 200 with the result as the body.
OkResponse(r) == [status |-> 200, kind |-> "result", detail |-> <<>>, result |-> r]

\* The response FastAPI makes of an HTTPException.
ErrorResponse(status, detail) ==
  [status |-> status, kind |-> "error", detail |-> detail, result |-> NoResult]

\* ItemCheckRequest: item is a required field, so a body without it never
\* reaches the handler; FastAPI answers 422.
ItemCheckRequest(body) ==
  IF body.has_item
  THEN Return(body)
  ELSE Raise(HTTPException(422, Lit("Field required: item")))

\* if not request.item
ItemRejectedNoStrip(item) == item = <<>>

\* if not request.item or not request.item.strip()
ItemRejected(item) == item = <<>> \/ strip(item) = <<>>

\* check_item from the point where the client's call has been answered.
check_item_resume(item, up) ==
  LET r == check_tsa_item(item, up)
  IN IF r.ret THEN OkResponse(r.result)
     ELSE IF r.exc.exc = "HTTPException"
       THEN ErrorResponse(r.exc.status, r.exc.detail)
     ELSE ErrorResponse(500, Lit("Failed to check item: ") \o str(r.exc))

\* The HTTPException as the client first constructs it for a non-200
\* status, a timeout or a transport failure; none for the other outcomes.
Classified(item, up) ==
  LET body == TryBody(item, up)
  IN IF body.ret THEN NoException
     ELSE IF body.exc.exc = "HTTPException" THEN body.exc
     ELSE IF body.exc.exc \in {"TimeoutException", "RequestError"}
       THEN ClientHandlers(body.exc)
     ELSE NoException

HealthPayload == [status |-> "healthy", service |-> "tsa-item-checker"]
NoProbe == [status |-> "", service |-> ""]

(***************************************************************************)
(* Inputs                                                                  *)
(***************************************************************************)
\* Request items: empty, whitespace only, plain, padded, with inner space.
Items ==
  { <<>>, <<Space>>, <<Space, Space>>, <<Letter>>,
    <<Space, Letter, Space>>, <<Letter, Space, Letter>> }

RequestBodies ==
  { [has_item |-> FALSE, item |-> <<>>] }
    \cup { [has_item |-> TRUE, item |-> i] : i \in Items }

Keys ==
  { "carry_on_allowed", "checked_baggage_allowed", "description",
    "restrictions", "additional_notes", "item" }

JsonValues ==
  { PyBool(TRUE), PyBool(FALSE), PyNone, PyStr(Lit("s")), PyStr(Lit("yes")) }

\* Member lists of the objects in a reply: every single member, and some
\* objects with several members, a repeated key or an unknown key.
Bodies ==
  { <<Member(k, v)>> : k \in Keys, v \in JsonValues }
    \cup { << Member("carry_on_allowed", PyBool(FALSE)),
              Member("checked_baggage_allowed", PyBool(TRUE)),
              Member("description", PyStr(Lit("Liquids over 3.4oz..."))) >>,
           << Member("carry_on_allowed", PyBool(TRUE)),
              Member("checked_baggage_allowed", PyBool(TRUE)),
              Member("description", PyStr(Lit("s"))),
              Member("restrictions", PyStr(Lit("r"))),
              Member("additional_notes", PyStr(Lit("n"))) >>,
           << Member("item", PyStr(Lit("other item"))),
              Member("carry_on_allowed", PyBool(TRUE)) >>,
           << Member("carry_on_allowed", PyBool(FALSE)),
              Member("carry_on_allowed", PyBool(TRUE)) >>,
           << Member("confidence", PyStr(Lit("high"))) >> }

Slot == Ch("m")

Shapes ==
  UNION { [1..n -> {LBrace, RBrace, Prose, Slot}] : n \in 0..MaxReplyLen }

\* Reply texts of the model: braces, prose and member lists in any order.
Replies ==
  { [i \in 1..Len(sh) |-> IF sh[i] = Slot THEN MembersText(b) ELSE sh[i]] :
      sh \in Shapes, b \in Bodies }

\* What client.post comes back with.
Answer(kind, status, text, envelope, content) ==
  [kind |-> kind, status |-> status, text |-> text,
   envelope |-> envelope, content |-> content]

NoAnswer == Answer("none", 0, <<>>, FALSE, <<>>)

ErrorStatuses == {404, 500, 503}

UpstreamModes == {"reachable", "failing", "timing_out", "unreachable"}

(***************************************************************************)
(* State                                                                   *)
(***************************************************************************)
VARIABLES
  upstream,    \* the state of the completion API
  pc,          \* check_item: "idle", "awaiting" the client's call, "done"
  request,     \* the body of the current POST /check-item
  outbound,    \* outbound calls made for the current request
  up,          \* what the outbound call came back with
  response,    \* the response to the current request
  responded,   \* number of responses sent for the current request
  classified,  \* the error as the client first classified it
  health       \* the response to the latest GET /health

vars ==
  <<upstream, pc, request, outbound, up, response, responded, classified, health>>

Init ==
  /\ upstream \in UpstreamModes
  /\ pc = "idle"
  /\ request = [has_item |-> FALSE, item |-> <<>>]
  /\ outbound = <<>>
  /\ up = NoAnswer
  /\ response = NoResponse
  /\ responded = 0
  /\ classified = NoException
  /\ health = NoProbe

\* POST /check-item up to the await of the client's call.
check_item ==
  /\ pc \in {"idle", "done"}
  /\ \E body \in RequestBodies :
       /\ request' = body
       /\ up' = NoAnswer
       /\ classified' = NoException
       /\ IF ~ItemCheckRequest(body).ret
            THEN /\ response' = ErrorResponse(ItemCheckRequest(body).exc.status,
                                              ItemCheckRequest(body).exc.detail)
                 /\ outbound' = <<>>
                 /\ responded' = 1
                 /\ pc' = "done"
          ELSE IF ItemRejected(body.item)
            THEN /\ response' = ErrorResponse(400, Lit("Item name is required"))
                 /\ outbound' = <<>>
                 /\ responded' = 1
                 /\ pc' = "done"
          ELSE /\ response' = NoResponse
               /\ outbound' = <<[by |-> "check_item", item |-> strip(body.item)]>>
               /\ responded' = 0
               /\ pc' = "awaiting"
  /\ UNCHANGED <<upstream, health>>

\* The rest of check_item, run when the client's call is answered with a.
Complete(a) ==
  /\ up' = a
  /\ response' = check_item_resume(outbound[1].item, a)
  /\ classified' = Classified(outbound[1].item, a)
  /\ responded' = responded + 1
  /\ pc' = "done"
  /\ UNCHANGED <<upstream, request, outbound, health>>

\* The completion API answers 200 with a reply text of the model.
UpstreamReplies ==
  /\ pc = "awaiting"
  /\ upstream = "reachable"
  /\ \E r \in Replies : Complete(Answer("response", 200, <<>>, TRUE, r))

\* The completion API answers 200 with a body that has no choices.
UpstreamBadEnvelope ==
  /\ pc = "awaiting"
  /\ upstream = "reachable"
  /\ Complete(Answer("response", 200, Lit("{}"), FALSE, <<>>))

\* The completion API answers with another status and the client calls again.
UpstreamStatusRetried ==
  /\ pc = "awaiting"
  /\ upstream = "failing"
  /\ Len(outbound) < 3
  /\ \E s \in ErrorStatuses :
       up' = Answer("response", s, Lit("upstream body"), FALSE, <<>>)
  /\ outbound' = Append(outbound, outbound[1])
  /\ UNCHANGED <<upstream, pc, request, response, responded, classified, health>>

\* The completion API answers with another status.
UpstreamStatus ==
  /\ pc = "awaiting"
  /\ upstream = "failing"
  /\ \E s \in ErrorStatuses :
       Complete(Answer("response", s, Lit("upstream body"), FALSE, <<>>))

\* The call runs into the 30 s timeout.
UpstreamTimesOut ==
  /\ pc = "awaiting"
  /\ upstream = "timing_out"
  /\ Complete(Answer("timeout", 0, Lit("timed out"), FALSE, <<>>))

\* The call fails in transport.
UpstreamUnreachable ==
  /\ pc = "awaiting"
  /\ upstream = "unreachable"
  /\ Complete(Answer("network", 0, Lit("connection refused"), FALSE, <<>>))

\* GET /health, had it probed the completion API.
health_check_probing ==
  /\ Len(outbound) < 3
  /\ outbound' = Append(outbound, [by |-> "health_check", item |-> <<>>])
  /\ health' = IF upstream = "reachable"
               THEN HealthPayload
               ELSE [status |-> "unhealthy", service |-> "tsa-item-checker"]
  /\ UNCHANGED <<upstream, pc, request, up, response, responded, classified>>

\* GET /health
health_check ==
  /\ health' = HealthPayload
  /\ UNCHANGED <<upstream, pc, request, outbound, up, response, responded, classified>>

Next ==
  \/ check_item
  \/ UpstreamReplies
  \/ UpstreamBadEnvelope
  \/ UpstreamStatus
  \/ UpstreamTimesOut
  \/ UpstreamUnreachable
  \/ health_check

Spec == Init /\ [][Next]_vars

(***************************************************************************)
(* Vocabulary of the properties, stated without the operators above        *)
(***************************************************************************)
AllWhitespace(s) == \A i \in 1..Len(s) : s[i].c = " "

\* t is s without its leading and trailing whitespace.
IsTrimOf(s, t) ==
  \E i \in 0..Len(s) : \E j \in i..Len(s) :
    /\ t = SubSeq(s, i + 1, j)
    /\ AllWhitespace(SubSeq(s, 1, i))
    /\ AllWhitespace(SubSeq(s, j + 1, Len(s)))
    /\ t # <<>> => (t[1].c # " " /\ t[Len(t)].c # " ")

\* The text of a JSON object: "{}" or "{" members "}".
IsObjectText(t) ==
  \/ t = <<LBrace, RBrace>>
  \/ Len(t) = 3 /\ t[1] = LBrace /\ t[2].c = "m" /\ t[3] = RBrace

\* The object a JSON object text denotes.
ObjectOf(t) ==
  LET ms == IF Len(t) = 3 THEN t[2].body ELSE <<>>
  IN [k \in {ms[i].k : i \in 1..Len(ms)} |->
        ms[CHOOSE i \in 1..Len(ms) :
             ms[i].k = k /\ \A j \in (i + 1)..Len(ms) : ms[j].k # k].v]

\* Positions i..j of r hold the text of a JSON object.
EmbeddedAt(r, i, j) == i < j /\ IsObjectText(SubSeq(r, i, j))

\* i is the first "{" of r and j its last "}".
OuterPair(r, i, j) ==
  /\ r[i] = LBrace /\ \A k \in 1..(i - 1) : r[k] # LBrace
  /\ r[j] = RBrace /\ \A k \in (j + 1)..Len(r) : r[k] # RBrace

\* The text from the first "{" to the last "}" of r is a JSON object.
OuterObject(r) ==
  \E i, j \in 1..Len(r) : OuterPair(r, i, j) /\ EmbeddedAt(r, i, j)

OuterText(r) ==
  LET p == CHOOSE p \in (1..Len(r)) \X (1..Len(r)) : OuterPair(r, p[1], p[2])
  IN SubSeq(r, p[1], p[2])

\* The values of o have the types the result model declares.
WellTyped(o) ==
  /\ \A k \in {"carry_on_allowed", "checked_baggage_allowed"} \cap DOMAIN o :
       o[k].t = "bool"
  /\ \A k \in {"description"} \cap DOMAIN o : o[k].t = "str"
  /\ \A k \in {"restrictions", "additional_notes"} \cap DOMAIN o :
       o[k].t \in {"str", "none"}

\* The result's field for key k, as a JSON value.
FieldOf(res, k) ==
  CASE k = "carry_on_allowed" -> PyBool(res.carry_on_allowed)
    [] k = "checked_baggage_allowed" -> PyBool(res.checked_baggage_allowed)
    [] k = "description" -> PyStr(res.description)
    [] k = "restrictions" -> res.restrictions
    [] k = "additional_notes" -> res.additional_notes

DefaultOf(k) ==
  CASE k = "carry_on_allowed" -> PyBool(FALSE)
    [] k = "checked_baggage_allowed" -> PyBool(FALSE)
    [] k = "description" -> PyStr(Lit("No description available"))
    [] k = "restrictions" -> PyNone
    [] k = "additional_notes" -> PyNone

ResultKeys ==
  { "carry_on_allowed", "checked_baggage_allowed", "description",
    "restrictions", "additional_notes" }

\* res carries the values of o, and the defaults for the keys o lacks.
Reflects(res, o) ==
  \A k \in ResultKeys :
    FieldOf(res, k) = IF k \in DOMAIN o THEN o[k] ELSE DefaultOf(k)

\* The request got past validation and the upstream answered 200 with a reply.
Replied == pc = "done" /\ up.kind = "response" /\ up.status = 200 /\ up.envelope

Contains(text, word) == \E i \in 1..Len(text) : text[i] = Ch(word)

(***************************************************************************)
(* Properties                                                              *)
(***************************************************************************)

\* C1: for an item that is not empty and not whitespace only, and for every
\* reply of the model, the endpoint returns 200 with a result whose item
\* is the trimmed input.
C1_AlwaysResult ==
  (Replied /\ request.has_item /\ ~AllWhitespace(request.item)) =>
    /\ response.status = 200
    /\ response.kind = "result"
    /\ IsTrimOf(request.item, response.result.item)

\* C2: whenever a result is returned, its item is the request's item
\* trimmed, also when the reply's object has an "item" key of its own.
C2_ItemEchoed ==
  (pc = "done" /\ response.kind = "result") =>
    IsTrimOf(request.item, response.result.item)

\* A result was returned for a padded item although the reply's object
\* named another item.
C2_Witness ==
  /\ pc = "done" /\ response.kind = "result"
  /\ request.item # response.result.item
  /\ OuterObject(up.content)
  /\ "item" \in DOMAIN ObjectOf(OuterText(up.content))
  /\ ObjectOf(OuterText(up.content))["item"] # PyStr(response.result.item)

\* C3: a reply with no "{" ... "}" pair, or whose text from the first "{"
\* to the last "}" is not JSON, yields a result (not an error) with both
\* flags false, the raw reply as description, no restrictions and a
\* non-empty diagnostic note.
C3_FailClosed ==
  (Replied /\ ~OuterObject(up.content)) =>
    /\ response.status = 200
    /\ response.kind = "result"
    /\ ~response.result.carry_on_allowed
    /\ ~response.result.checked_baggage_allowed
    /\ response.result.description = up.content
    /\ response.result.restrictions = PyNone
    /\ response.result.additional_notes.t = "str"
    /\ response.result.additional_notes.s # <<>>

\* A reply whose braces enclose text that is not JSON, although it holds a
\* member that allows carry-on, got the fail-closed result.
C3_Witness ==
  /\ Replied /\ ~OuterObject(up.content)
  /\ \E i, j \in 1..Len(up.content) : OuterPair(up.content, i, j) /\ i < j
  /\ \E i \in 1..Len(up.content) :
       /\ up.content[i].c = "m"
       /\ up.content[i].body = <<Member("carry_on_allowed", PyBool(TRUE))>>
  /\ response.kind = "result"
  /\ response.result.description = up.content

\* C4, as claimed: if the reply embeds a JSON object anywhere in its text
\* (here: exactly one, with values of the declared types), the result's
\* fields are that object's values, with the defaults for absent keys.
C4_EmbeddedAnywhere ==
  Replied =>
    \A i, j \in 1..Len(up.content) :
      ( /\ EmbeddedAt(up.content, i, j)
        /\ \A k, l \in 1..Len(up.content) :
             EmbeddedAt(up.content, k, l) => (k = i /\ l = j)
        /\ WellTyped(ObjectOf(SubSeq(up.content, i, j))) )
      => /\ response.kind = "result"
         /\ Reflects(response.result, ObjectOf(SubSeq(up.content, i, j)))

\* C4, amended: if the text from the first "{" to the last "}" of the reply
\* is a JSON object, then a result is returned when the object's values have
\* the declared types, and every field of a returned result whose key is
\* absent or has a value of the declared type equals the default or that
\* value.
C4_OuterObjectReflected ==
  (Replied /\ OuterObject(up.content)) =>
    LET o == ObjectOf(OuterText(up.content))
    IN /\ WellTyped(o) => response.kind = "result"
       /\ response.kind = "result" =>
            \A k \in ResultKeys :
              IF k \in DOMAIN o
              THEN WellTyped([x \in {k} |-> o[k]]) =>
                     FieldOf(response.result, k) = o[k]
              ELSE FieldOf(response.result, k) = DefaultOf(k)

\* The object stood after prose and all five of its values came through.
C4_Witness ==
  /\ Replied /\ OuterObject(up.content)
  /\ up.content[1] = Prose
  /\ response.kind = "result"
  /\ response.result.carry_on_allowed
  /\ response.result.checked_baggage_allowed
  /\ response.result.description = Lit("s")
  /\ response.result.restrictions = PyStr(Lit("r"))
  /\ response.result.additional_notes = PyStr(Lit("n"))

\* C5: an item that is empty or whitespace only is answered 400 and no
\* outbound call is made for it.
C5_EmptyRejected ==
  (pc # "idle" /\ request.has_item /\ AllWhitespace(request.item)) =>
    /\ pc = "done"
    /\ response.status = 400
    /\ response.kind = "error"
    /\ outbound = <<>>
    /\ up = NoAnswer

\* A whitespace-only item was answered 400.
C5_Witness ==
  /\ pc = "done"
  /\ request = [has_item |-> TRUE, item |-> <<Space, Space>>]
  /\ response.status = 400
  /\ outbound = <<>>

\* C6: a timeout of the upstream call is answered 504, a non-2xx upstream
\* status is answered 500 with that status in the message; neither returns
\* a result.
C6_UpstreamFailures ==
  pc = "done" =>
    /\ up.kind = "timeout" =>
         response.status = 504 /\ response.kind = "error"
    /\ (up.kind = "response" /\ up.status \notin 200..299) =>
         /\ response.status = 500
         /\ response.kind = "error"
         /\ Contains(response.detail, ToString(up.status))

\* The upstream answered 503 and the request was answered 500 with "503"
\* in the message.
C6_Witness ==
  /\ pc = "done" /\ up.kind = "response" /\ up.status = 503
  /\ response.status = 500 /\ response.kind = "error"
  /\ Contains(response.detail, "503")

\* C7: a body without an item field is answered 400, like an empty item.
C7_MissingItem400 ==
  (pc = "done" /\ ~request.has_item) => response.status = 400

\* C8: GET /health returns the static payload and makes no outbound call,
\* whatever the upstream's state and the request in flight.
C8_HealthStatic ==
  /\ health # NoProbe => health = HealthPayload
  /\ \A i \in 1..Len(outbound) : outbound[i].by = "check_item"

\* /health answered while a request waited on an upstream that times out.
C8_Witness ==
  /\ health = HealthPayload
  /\ pc = "awaiting"
  /\ upstream = "timing_out"

\* C9: at most one outbound call is made per request on every path, and
\* a finished request has been answered exactly once.
C9_NoRetries ==
  /\ Len(outbound) <= 1
  /\ responded <= 1
  /\ pc = "awaiting" => (Len(outbound) = 1 /\ responded = 0)
  /\ pc = "done" => responded = 1
  /\ (pc = "done" /\ up # NoAnswer) => Len(outbound) = 1

\* An upstream 503 ended the request with one call and one error response.
C9_Witness ==
  /\ pc = "done" /\ up.kind = "response" /\ up.status = 503
  /\ Len(outbound) = 1
  /\ responded = 1
  /\ response.kind = "error"

\* C10: an error the client has classified (non-200 status, timeout,
\* transport failure) reaches the caller with the status code and the
\* message it was raised with.
C10_Passthrough ==
  (pc = "done" /\ classified # NoException) =>
    /\ response.kind = "error"
    /\ response.status = classified.status
    /\ response.detail = classified.detail

====
